---- MODULE Spec2Model ----
(***************************************************************************)
(* Model of the commit retrieval and aggregation pipeline of               *)
(* jungbini/coding_exercise_python:                                        *)
(*   git_analyzer.py  extract_repo_info, _fetch_commits, analyze_commits   *)
(*   html_parser.py   save_dataframe_as_html (outlier flags, final grade)  *)
(*   main.py          analyze_multiple_users                               *)
(*                                                                         *)
(* Text is modelled as a sequence of symbols (one-character strings, plus  *)
(* a few multi-character symbols that the code only ever treats as a unit),*)
(* so that startswith / endswith / lower / "in" are computed, not assumed. *)
(* Timestamps are whole hours since midnight of day 0.                     *)
(***************************************************************************)
EXTENDS Integers, Sequences, FiniteSets, TLC

VARIABLES
    pc,          \* position in analyze_commits / _fetch_commits
    args,        \* arguments of analyze_commits
    resp,        \* response of the validation request of extract_repo_info
    repo,        \* (owner, repo) returned by extract_repo_info
    exc,         \* the exception that left analyze_commits, or NoExc
    week,        \* (label, start, end) of load_week_range
    directory,   \* analyze_commits' local `directory` after defaulting
    pass,        \* 0 before the harvest, 1 / 2: which _fetch_commits call
    page,        \* _fetch_commits: page
    commits,     \* _fetch_commits: commits (shas) of the current page
    ci,          \* _fetch_commits: index of the for loop over commits
    listed,      \* number of commits the server listed so far in this pass
    raw_data,    \* _fetch_commits: raw_data, then analyze_commits' raw_data
    throttled,   \* TRUE iff time.sleep ran since the last detail request
    requests,    \* _fetch_commits: the requests issued in this pass, in order
    lastCommit,  \* what the last step of the for loop saw of its commit
    lastList,    \* the last commit-list response of the pass that returned
    pass1,       \* whether the Pass 1 call returned, and what
    df,          \* analyze_commits: df after the exclude-first-commit step
    table,       \* the DataFrame analyze_commits returned
    rtable,      \* save_dataframe_as_html: the table as it was passed in
    graded,      \* save_dataframe_as_html: df after line 140
    rpc,         \* save_dataframe_as_html: position
    lines,       \* analyze_multiple_users: lines of the accounts file
    all_results, \* analyze_multiple_users: all_results
    outcomes,    \* what each line read so far came to, in file order
    bpc,         \* analyze_multiple_users: position
    report       \* analyze_multiple_users: the reports written

vars == <<pc, args, resp, repo, exc, week, directory, pass, page, commits, ci,
          listed, raw_data, throttled, requests, lastCommit, lastList, pass1,
          df, table,
          rtable, graded, rpc, lines, all_results, outcomes, bpc, report>>

resolveVars == <<resp, repo>>
harvestVars == <<pass, page, commits, ci, listed, raw_data, throttled, requests,
                 lastCommit, lastList, pass1>>
reportVars == <<rtable, graded, rpc>>
batchVars == <<lines, all_results, outcomes, bpc, report>>

\* Python's None, for a number, a response, a pair and a week
None == -1
NoBody == [json |-> FALSE, hasMessage |-> FALSE, message |-> <<>>]
NoResp == [status |-> 0, body |-> NoBody]
NoRepo == <<>>
NoWeek == [label |-> <<>>, start |-> 0, end |-> 0]
NotReturned == [returned |-> FALSE, data |-> <<>>]
NoCommit == [name |-> <<>>, requested |-> FALSE, status |-> 0, date |-> None]
NoList == [status |-> 0, page |-> 0, collected |-> 0]
NoExc == [type |-> "none", kind |-> "none", status |-> 0]

(***************************************************************************)
(* Bounds of the model.                                                    *)
(***************************************************************************)
MaxPages == 2        \* pages with commits the server serves in one pass
MaxCommits == 2      \* commits the server lists in one pass
MaxRecords == 5      \* records of a harvest handed to the aggregation alone
MaxRows == 6         \* rows of a table handed to save_dataframe_as_html
MaxLines == 3        \* lines of the accounts file

(***************************************************************************)
(* Text helpers (Python str methods, computed on symbol sequences).        *)
(***************************************************************************)
StartsWith(s, p) == Len(p) <= Len(s) /\ SubSeq(s, 1, Len(p)) = p

EndsWith(s, p) == Len(p) <= Len(s) /\ SubSeq(s, Len(s) - Len(p) + 1, Len(s)) = p

Contains(s, sub) ==
    \E i \in 1..(Len(s) - Len(sub) + 1) : SubSeq(s, i, i + Len(sub) - 1) = sub

UpperLetters ==
    <<"A", "B", "C", "D", "E", "F", "G", "H", "I", "J", "K", "L", "M",
      "N", "O", "P", "Q", "R", "S", "T", "U", "V", "W", "X", "Y", "Z">>

LowerLetters ==
    <<"a", "b", "c", "d", "e", "f", "g", "h", "i", "j", "k", "l", "m",
      "n", "o", "p", "q", "r", "s", "t", "u", "v", "w", "x", "y", "z">>

LowerChar(c) ==
    IF \E i \in DOMAIN UpperLetters : UpperLetters[i] = c
    THEN LowerLetters[CHOOSE i \in DOMAIN UpperLetters : UpperLetters[i] = c]
    ELSE c

Lower(s) == [i \in DOMAIN s |-> LowerChar(s[i])]

(***************************************************************************)
(* extract_repo_info (git_analyzer.py 18-67).                              *)
(***************************************************************************)
GithubPrefix == "https://github.com/"

\* Index of the first "/" of s at or after position from; Len(s)+1 if none.
NextSlash(s, from) ==
    IF \E i \in from..Len(s) : s[i] = "/"
    THEN CHOOSE i \in from..Len(s) :
            s[i] = "/" /\ \A j \in from..(i - 1) : s[j] # "/"
    ELSE Len(s) + 1

\* re.match(r"https://github\.com/([^/]+)/([^/]+)", url): is there a match.
UrlMatches(url) ==
    /\ Len(url) >= 1 /\ url[1] = GithubPrefix
    /\ LET o == NextSlash(url, 2) IN
         /\ o > 2 /\ o <= Len(url)           \* owner non-empty, then "/"
         /\ NextSlash(url, o + 1) > o + 1    \* repo non-empty

\* match.group(1), match.group(2)
UrlOwner(url) == SubSeq(url, 2, NextSlash(url, 2) - 1)

UrlRepo(url) ==
    LET o == NextSlash(url, 2) IN SubSeq(url, o + 1, NextSlash(url, o + 1) - 1)

\* repo.rstrip("/")
RECURSIVE RStripSlash(_)
RStripSlash(s) ==
    IF Len(s) > 0 /\ s[Len(s)] = "/" THEN RStripSlash(SubSeq(s, 1, Len(s) - 1))
    ELSE s

DotGit == <<".", "g", "i", "t">>

\* lines 31-33
CleanRepo(r) ==
    LET t == RStripSlash(r) IN
    IF EndsWith(t, DotGit) THEN SubSeq(t, 1, Len(t) - 4) ELSE t

RateLimit == <<"r", "a", "t", "e", " ", "l", "i", "m", "i", "t">>

\* lines 51-55: msg = resp.json().get("message", ""), "" when the body is no JSON
BodyMessage(body) ==
    IF body.json /\ body.hasMessage THEN body.message ELSE <<>>

Raise(type, kind, status) == [type |-> type, kind |-> kind, status |-> status]

\* variant: the comparison without lower()
IsRateLimitMessageCaseSensitive(msg) == Contains(msg, RateLimit)

\* "rate limit" in msg.lower()  (line 56)
IsRateLimitMessage(msg) == Contains(Lower(msg), RateLimit)

\* lines 47-67: the outcome for a completed validation request.
\* A record [type |-> "none"] stands for the normal return.
StatusOutcome(r) ==
    IF r.status = 404 THEN Raise("RepoNotFoundError", "not_found", 0)
    ELSE IF r.status \in {401, 403} THEN
        IF IsRateLimitMessage(BodyMessage(r.body))
        THEN Raise("RepoPermissionError", "rate_limit", 0)
        ELSE Raise("RepoPermissionError", "permission", 0)
    ELSE IF r.status # 200 THEN Raise("RuntimeError", "api_error", r.status)
    ELSE NoExc

(***************************************************************************)
(* Inputs of the resolver.                                                 *)
(***************************************************************************)
Urls ==
    { <<GithubPrefix, "o", "/", "r">>,
      <<GithubPrefix, "o", "/", "r", ".", "g", "i", "t">>,
      <<GithubPrefix, "o", "/", "r", "/">>,
      <<GithubPrefix, "o", "/", "r", ".", "g", "i", "t", "/">>,
      <<GithubPrefix, "o">>,
      <<"http://example.org/", "o", "/", "r">> }

Statuses == {200, 201, 301, 401, 403, 404, 500}

Messages ==
    { <<"A", "P", "I", " ", "r", "a", "t", "e", " ", "l", "i", "m", "i", "t">>,
      <<"R", "a", "t", "e", " ", "L", "i", "m", "i", "t">>,
      <<"R", "A", "T", "E", " ", "L", "I", "M", "I", "T", "!">>,
      <<"r", "a", "t", "e", "l", "i", "m", "i", "t">>,
      <<"r", "a", "t", "e", " ", "l", "i", "m", "i">>,
      <<"N", "o", "t", " ", "F", "o", "u", "n", "d">> }

Bodies ==
    { NoBody,
      [json |-> TRUE, hasMessage |-> FALSE, message |-> <<>>] }
    \cup { [json |-> TRUE, hasMessage |-> TRUE, message |-> m] : m \in Messages }

Responses == [status : Statuses, body : Bodies]

(***************************************************************************)
(* load_week_range (git_analyzer.py 175-181) and the harvest inputs.       *)
(***************************************************************************)
HoursPerDay == 24
KstOffsetHours == 9

\* The week descriptor file: label, start day, end day.
WeekDescriptor == [label |-> <<"w">>, start_day |-> 1, end_day |-> 2]

\* datetime.strptime(day, "%Y-%m-%d"): midnight of that day
ParseDay(day) == day * HoursPerDay

LoadWeekRange ==
    [label |-> WeekDescriptor.label,
     start |-> ParseDay(WeekDescriptor.start_day),
     end |-> ParseDay(WeekDescriptor.end_day)]

\* analyze_commits passes github_directory, assigned "" on line 189
GithubDirectory == <<>>

\* lines 191-194: the directory prefix after defaulting to the week label
DefaultDirectory(dir, label) ==
    IF dir # <<>> THEN dir
    ELSE IF label # <<>> /\ ~EndsWith(label, <<"/">>) THEN label \o <<"/">>
    ELSE label

DotPy == <<".", "p", "y">>

PathA == <<"w", "/", "a", ".", "p", "y">>
PathB == <<"w", "/", "b", ".", "p", "y">>
PathC == <<"x", "/", "a", ".", "p", "y">>
PathD == <<"w", "/", "a", ".", "t", "x", "t">>

FileEntry(fn, st, ch, ad, de) ==
    [filename |-> fn, status |-> st, changes |-> ch, additions |-> ad,
     deletions |-> de]

\* detail["files"] of a commit-detail response
FileLists ==
    { <<>>,
      <<FileEntry(PathA, "modified", 4, 3, 1)>>,
      <<FileEntry(PathA, "added", 10, 10, 0), FileEntry(PathB, "modified", 3, 1, 2)>>,
      <<FileEntry(PathA, "removed", 5, 0, 5)>>,
      <<FileEntry(PathC, "modified", 2, 1, 1)>>,
      <<FileEntry(PathD, "modified", 1, 1, 0)>> }

\* author dates (UTC, hours): 14 and 40 fall outside the window after the
\* shift, 15 lands on its start, 39 on its end
Times == {14, 15, 20, 39, 40}

Kim == <<"k", "i", "m">>
Names == {Kim, <<"K", "i", "m">>}

DetailResponses == [status : {200, 404}, date : Times, files : FileLists]

\* non-200 statuses of a commit-list response
FailedStatuses == {403, 500}

(***************************************************************************)
(* _fetch_commits (git_analyzer.py 304-368).                               *)
(***************************************************************************)
\* line 342: date = utc_date + timedelta(hours=9)
ToLocal(utc) == utc + KstOffsetHours

\* variant: the end of the window excluded
InWindowEndExclusive(date, w) == w.start <= date /\ date < w.end

\* line 344: start_filter <= date <= end_filter
InWindow(date, w) == w.start <= date /\ date <= w.end

\* line 354
KeepFile(f, dir) ==
    /\ StartsWith(f.filename, dir)
    /\ EndsWith(f.filename, DotPy)
    /\ f.status # "removed"

\* lines 355-364
MakeRecord(f, user, date, url) ==
    [user |-> user, date |-> date, filename |-> f.filename,
     total_changes |-> f.changes, additions |-> f.additions,
     deletions |-> f.deletions, status |-> f.status, url |-> url]

\* lines 349-364: the records one kept commit appends
FileRecords(files, dir, user, date, url) ==
    LET kept == SelectSeq(files, LAMBDA f : KeepFile(f, dir)) IN
    [i \in 1..Len(kept) |-> MakeRecord(kept[i], user, date, url)]

\* line 312: name_filter = params.get("author") is None
NameFilter == pass = 2

\* lines 328-331: is the commit skipped before its detail is requested
SkippedByName(name, username) == NameFilter /\ name # username

(***************************************************************************)
(* State after construction: analyze_commits is about to be called.        *)
(***************************************************************************)
Args ==
    [username : {Kim}, directory : {<<>>},
     exclude_first_commit : BOOLEAN, user_actual_name : {<<"M", "i", "n">>}]

InitReport == rtable = <<>> /\ graded = <<>> /\ rpc = "idle"

NoReport == [combined |-> FALSE, names |-> {}]

InitBatch ==
    /\ lines = <<>> /\ all_results = <<>> /\ outcomes = <<>>
    /\ bpc = "idle" /\ report = NoReport

Init ==
    /\ pc = "start"
    /\ args \in Args
    /\ resp = NoResp /\ repo = NoRepo /\ exc = NoExc
    /\ week = NoWeek /\ directory = <<>>
    /\ pass = 0 /\ page = 0 /\ commits = <<>> /\ ci = 0 /\ listed = 0
    /\ raw_data = <<>> /\ throttled = TRUE /\ lastCommit = NoCommit
    /\ requests = <<>>
    /\ lastList = NoList
    /\ pass1 = NotReturned /\ df = <<>> /\ table = <<>>
    /\ InitReport /\ InitBatch

(***************************************************************************)
(* analyze_commits line 186: extract_repo_info(github_url, token).         *)
(***************************************************************************)
ExtractRepoInfo ==
    /\ pc = "start"
    /\ \E url \in Urls :
         IF ~UrlMatches(url)
         THEN \* line 27, before any request
              /\ exc' = Raise("ValueError", "bad_url", 0)
              /\ pc' = "raised"
              /\ UNCHANGED <<resp, repo>>
         ELSE \/ \* lines 44-45: requests.RequestException
                 /\ exc' = Raise("ConnectionError", "connect", 0)
                 /\ pc' = "raised"
                 /\ UNCHANGED <<resp, repo>>
              \/ \E r \in Responses :
                    /\ resp' = r
                    /\ IF StatusOutcome(r) = NoExc
                       THEN /\ repo' = <<UrlOwner(url), CleanRepo(UrlRepo(url))>>
                            /\ pc' = "resolved"
                            /\ UNCHANGED exc
                       ELSE /\ exc' = StatusOutcome(r)
                            /\ pc' = "raised"
                            /\ UNCHANGED repo
    /\ UNCHANGED <<args, week, directory, df, table>>
    /\ UNCHANGED <<harvestVars, reportVars, batchVars>>

(***************************************************************************)
(* analyze_commits lines 187-207: the week window, the directory default   *)
(* and the first call of _fetch_commits (author=username).                 *)
(***************************************************************************)
AnalyzeSetup ==
    /\ pc = "resolved"
    /\ week' = LoadWeekRange
    /\ directory' = DefaultDirectory(args.directory, LoadWeekRange.label)
    /\ resp' = NoResp     \* extract_repo_info's locals are gone
    /\ pass' = 1 /\ page' = 1 /\ raw_data' = <<>> /\ listed' = 0
    /\ commits' = <<>> /\ ci' = 0 /\ throttled' = TRUE /\ lastCommit' = NoCommit
    /\ lastList' = NoList /\ requests' = <<>>
    /\ pc' = "list"
    /\ UNCHANGED <<args, repo, exc, pass1, df, table, reportVars, batchVars>>

\* line 316: the request of a commit-list page and what came back, `size`
\* the number of commits of the page (status 0: requests.get raised)
ListRequest(p, status, size) ==
    [kind |-> "list", id |-> p, status |-> status, size |-> size]

\* line 335: the request of a commit's detail and what came back
DetailRequest(commit, status) ==
    [kind |-> "detail", id |-> commit, status |-> status, size |-> 0]

\* variant: a failed page returns what the earlier pages collected
FailedListResultKeeps(data) == data

\* line 320: what _fetch_commits returns on a failed commit-list request,
\* `data` being the records collected so far
FailedListResult(data) == <<>>

\* _fetch_commits returns `result` to analyze_commits (lines 207 / 213)
\* after a commit-list response with the given status
ReturnFromFetch(status, result) ==
    /\ raw_data' = result
    /\ requests' = Append(requests, ListRequest(page, status, 0))
    /\ pass1' = IF pass = 1 THEN [returned |-> TRUE, data |-> result] ELSE pass1
    /\ lastList' = [status |-> status, page |-> page, collected |-> Len(raw_data)]
    /\ pc' = "fetched"
    /\ commits' = <<>> /\ ci' = 0
    /\ lastCommit' = NoCommit
    /\ UNCHANGED <<page, listed, throttled>>

\* lines 314-324: one commit-list request
FetchPage ==
    /\ pc = "list"
    /\ \/ \* requests.get raises: nothing in _fetch_commits catches it
          /\ exc' = Raise("RequestException", "commit_list", 0)
          /\ pc' = "raised"
          /\ requests' = Append(requests, ListRequest(page, 0, 0))
          /\ UNCHANGED <<page, commits, ci, listed, raw_data, throttled,
                         lastCommit, lastList, pass1>>
       \/ \* lines 318-320: status != 200
          /\ \E status \in FailedStatuses :
                ReturnFromFetch(status, FailedListResult(raw_data))
          /\ UNCHANGED exc
       \/ \* lines 322-324: an empty page ends the loop, line 368 returns
          /\ ReturnFromFetch(200, raw_data)
          /\ UNCHANGED exc
       \/ \* a page of n commits
          /\ page <= MaxPages
          /\ \E n \in 1..(MaxCommits - listed) :
                /\ commits' = [i \in 1..n |-> listed + i]
                /\ listed' = listed + n
                /\ requests' = Append(requests, ListRequest(page, 200, n))
          /\ ci' = 1
          /\ pc' = "commit"
          /\ lastCommit' = NoCommit
          /\ UNCHANGED <<page, raw_data, throttled, lastList, pass1, exc>>
    /\ UNCHANGED <<pass, args, resp, repo, week, directory, df, table>>
    /\ UNCHANGED <<reportVars, batchVars>>

\* variant: after the last commit of a page the same page is requested again
NextCommitSamePage ==
    IF ci < Len(commits)
    THEN ci' = ci + 1 /\ pc' = "commit" /\ UNCHANGED <<page, commits>>
    ELSE ci' = 0 /\ commits' = <<>> /\ page' = page /\ pc' = "list"

\* the for loop moves to the next commit; after the last one, line 367
NextCommit ==
    IF ci < Len(commits)
    THEN ci' = ci + 1 /\ pc' = "commit" /\ UNCHANGED <<page, commits>>
    ELSE ci' = 0 /\ commits' = <<>> /\ page' = page + 1 /\ pc' = "list"

\* lines 326-364: one iteration of the for loop, up to the sleep
FetchCommit ==
    /\ pc = "commit"
    /\ \E name \in Names :
         IF SkippedByName(name, args.username)
         THEN \* line 331: continue, no detail request
              /\ NextCommit
              /\ lastCommit' = [NoCommit EXCEPT !.name = name]
              /\ UNCHANGED <<raw_data, throttled, requests, exc>>
         ELSE \/ \* line 335 raises
                 /\ exc' = Raise("RequestException", "commit_detail", 0)
                 /\ pc' = "raised"
                 /\ lastCommit' = [NoCommit EXCEPT !.name = name, !.requested = TRUE]
                 /\ requests' = Append(requests, DetailRequest(commits[ci], 0))
                 /\ UNCHANGED <<page, commits, ci, raw_data, throttled>>
              \/ \E d \in DetailResponses :
                    /\ throttled' = FALSE
                    /\ requests' = Append(requests, DetailRequest(commits[ci], d.status))
                    /\ UNCHANGED exc
                    /\ IF d.status # 200
                       THEN \* line 337: continue
                            /\ NextCommit
                            /\ lastCommit' = [name |-> name, requested |-> TRUE,
                                               status |-> d.status, date |-> None]
                            /\ UNCHANGED raw_data
                       ELSE /\ lastCommit' = [name |-> name, requested |-> TRUE,
                                               status |-> 200, date |-> d.date]
                            /\ IF ~InWindow(ToLocal(d.date), week)
                               THEN \* line 345: continue
                                    /\ NextCommit
                                    /\ UNCHANGED raw_data
                               ELSE /\ raw_data' = raw_data \o
                                         FileRecords(d.files, GithubDirectory,
                                                     args.username,
                                                     ToLocal(d.date), commits[ci])
                                    /\ pc' = "sleep"
                                    /\ UNCHANGED <<page, commits, ci>>
    /\ UNCHANGED <<pass, listed, lastList, pass1>>
    /\ UNCHANGED <<args, resp, repo, week, directory, df, table>>
    /\ UNCHANGED <<reportVars, batchVars>>

\* line 366: time.sleep(0.2), then the next iteration
Throttle ==
    /\ pc = "sleep"
    /\ throttled' = TRUE
    /\ lastCommit' = NoCommit
    /\ NextCommit
    /\ UNCHANGED <<pass, listed, raw_data, requests, lastList, pass1>>
    /\ UNCHANGED <<args, resp, repo, exc, week, directory, df, table>>
    /\ UNCHANGED <<reportVars, batchVars>>

\* variant: the fallback taken whatever Pass 1 returned
FallbackAlways ==
    /\ pc = "fetched" /\ pass = 1
    /\ pass' = 2 /\ page' = 1 /\ listed' = 0
    /\ commits' = <<>> /\ ci' = 0 /\ throttled' = TRUE
    /\ lastCommit' = NoCommit /\ lastList' = NoList /\ requests' = <<>>
    /\ pc' = "list"
    /\ UNCHANGED <<raw_data, pass1>>
    /\ UNCHANGED <<args, resp, repo, exc, week, directory, df, table>>
    /\ UNCHANGED <<reportVars, batchVars>>

\* lines 210-213: the second call of _fetch_commits, without the author filter
Fallback ==
    /\ pc = "fetched" /\ pass = 1 /\ raw_data = <<>>
    /\ pass' = 2 /\ page' = 1 /\ listed' = 0
    /\ commits' = <<>> /\ ci' = 0 /\ throttled' = TRUE
    /\ lastCommit' = NoCommit /\ lastList' = NoList /\ requests' = <<>>
    /\ pc' = "list"
    /\ UNCHANGED <<raw_data, pass1>>
    /\ UNCHANGED <<args, resp, repo, exc, week, directory, df, table>>
    /\ UNCHANGED <<reportVars, batchVars>>

(***************************************************************************)
(* analyze_commits lines 215-301: exclude-first-commit and aggregation.    *)
(***************************************************************************)
MinutesPerHour == 60

\* Indices of the records of data with the filename fn (one groupby group)
Group(data, fn) == {i \in DOMAIN data : data[i].filename = fn}

\* line 222: df.groupby("filename")["date"].rank(method="first")
Rank(data, i) ==
    1 + Cardinality({j \in Group(data, data[i].filename) :
                       \/ data[j].date < data[i].date
                       \/ data[j].date = data[i].date /\ j < i})

\* variant: the mask without the "more than one record" condition
IsExcludedAlsoSingle(data, i) == Rank(data, i) = 1

\* line 223: the rows the mask removes
IsExcluded(data, i) ==
    Rank(data, i) = 1 /\ Cardinality(Group(data, data[i].filename)) > 1

RECURSIVE KeepFrom(_, _)
KeepFrom(data, i) ==
    IF i > Len(data) THEN <<>>
    ELSE (IF IsExcluded(data, i) THEN <<>> ELSE <<data[i]>>) \o KeepFrom(data, i + 1)

\* lines 221-224
ExcludeFirstCommit(data) == KeepFrom(data, 1)

\* variant: the upper boundary of "warning" moved by one
calculate_result_off_by_one(count) ==
    IF count = 1 THEN "fail"
    ELSE IF 2 <= count /\ count <= 5 THEN "warning"
    ELSE "success"

\* lines 70-76
calculate_result(count) ==
    IF count = 1 THEN "fail"
    ELSE IF 2 <= count /\ count < 5 THEN "warning"
    ELSE "success"

\* lines 169-172: int(total_seconds / 60), the number N of "<N>분"
calculate_duration(start_time, end_time) == (end_time - start_time) * MinutesPerHour

RECURSIVE SumOver(_, _, _)
SumOver(data, idx, field) ==
    IF idx = {} THEN 0
    ELSE LET i == CHOOSE k \in idx : TRUE IN
         data[i][field] + SumOver(data, idx \ {i}, field)

\* mean, then round(2): the value in hundredths, ties to the even neighbour
RoundedMean(total, n) ==
    LET q == (100 * total) \div n
        r == (100 * total) % n
    IN  IF 2 * r > n THEN q + 1
        ELSE IF 2 * r < n THEN q
        ELSE IF q % 2 = 0 THEN q ELSE q + 1

MinDate(data, idx) == CHOOSE d \in {data[i].date : i \in idx} :
                          \A i \in idx : d <= data[i].date

MaxDate(data, idx) == CHOOSE d \in {data[i].date : i \in idx} :
                          \A i \in idx : d >= data[i].date

\* groupby sorts its keys: the paths of the model in Python's string order
SortedPaths == <<PathA, PathD, PathB, PathC>>

GroupKeys(data) ==
    SelectSeq(SortedPaths, LAMBDA fn : Group(data, fn) # {})

\* line 233: sort_values("date") is not a stable sort, so among the records
\* of a file that share its latest date any one may come last
LatestChoices(data) ==
    { f \in [{data[i].filename : i \in DOMAIN data} -> DOMAIN data] :
        \A fn \in DOMAIN f :
            /\ f[fn] \in Group(data, fn)
            /\ data[f[fn]].date = MaxDate(data, Group(data, fn)) }

\* fetch_loc (lines 79-88): the line count, or None on a non-200 status or
\* any exception.  fetch_similarity (lines 134-166), called for the rows
\* that kept a loc only (line 248): None when the local file is missing, on
\* a non-200 status or on any exception; else the percentage of
\* calculate_similarity, in hundredths.
FetchOutcomes ==
    { [loc |-> None, similarity |-> None],
      [loc |-> 12, similarity |-> None],
      [loc |-> 12, similarity |-> 9000] }

\* lines 226-259 and 261-273 for one filename
SummaryRow(data, fn, latest, fetched, name) ==
    LET g == Group(data, fn)
        first == CHOOSE i \in g : \A j \in g : i <= j
        n == Cardinality(g)
    IN  [name |-> name,
         user |-> data[first].user,
         cell |-> [url |-> data[latest].url, filename |-> fn, count |-> n],
         date |-> MaxDate(data, g),
         status |-> data[latest].status,
         changes |-> [total |-> RoundedMean(SumOver(data, g, "total_changes"), n),
                      additions |-> RoundedMean(SumOver(data, g, "additions"), n),
                      deletions |-> RoundedMean(SumOver(data, g, "deletions"), n)],
         loc |-> fetched.loc,
         similarity |-> fetched.similarity,
         minutes |-> calculate_duration(MinDate(data, g), MaxDate(data, g)),
         result |-> calculate_result(n)]

\* lines 226-301: one row per filename, rows without loc dropped (line 248)
Summary(data, latest, fetched, name) ==
    LET keys == SelectSeq(GroupKeys(data), LAMBDA fn : fetched[fn].loc # None) IN
    [k \in 1..Len(keys) |->
        SummaryRow(data, keys[k], latest[keys[k]], fetched[keys[k]], name)]

\* lines 215-301
Aggregate ==
    /\ pc = "fetched"
    /\ pass = 2 \/ raw_data # <<>>
    /\ IF raw_data = <<>>
       THEN \* lines 215-217: return pd.DataFrame()
            /\ table' = <<>> /\ df' = <<>> /\ pc' = "returned"
            /\ UNCHANGED exc
       ELSE LET d == IF args.exclude_first_commit
                     THEN ExcludeFirstCommit(raw_data) ELSE raw_data
                fns == {d[i].filename : i \in DOMAIN d}
            IN  /\ df' = d
                /\ \E latest \in LatestChoices(d), fetched \in [fns -> FetchOutcomes] :
                      LET t == Summary(d, latest, fetched, args.user_actual_name) IN
                      \/ /\ table' = t /\ pc' = "returned" /\ UNCHANGED exc
                      \/ \* line 261: on a frame without rows DataFrame.apply
                         \* returns a frame, which cannot be set as one column
                         /\ t = <<>>
                         /\ exc' = Raise("ValueError", "empty_summary", 0)
                         /\ pc' = "raised" /\ UNCHANGED table
    /\ UNCHANGED <<args, resp, repo, week, directory>>
    /\ UNCHANGED <<harvestVars, reportVars, batchVars>>

Next ==
    \/ ExtractRepoInfo \/ AnalyzeSetup \/ FetchPage \/ FetchCommit \/ Throttle
    \/ Fallback \/ Aggregate

Spec == Init /\ [][Next]_vars

(***************************************************************************)
(* The aggregation on its own: analyze_commits at line 215 with a harvest  *)
(* of up to MaxRecords records, as _fetch_commits returns it when the      *)
(* repository has that many qualifying commits.                            *)
(***************************************************************************)
HarvestOptions ==
    { [file |-> FileEntry(PathA, "added", 10, 10, 0), date |-> 15],
      [file |-> FileEntry(PathA, "modified", 4, 3, 1), date |-> 20],
      [file |-> FileEntry(PathA, "modified", 4, 3, 1), date |-> 39],
      [file |-> FileEntry(PathB, "modified", 3, 1, 2), date |-> 20] }

HarvestedData ==
    UNION { { [i \in 1..n |-> MakeRecord(c[i].file, Kim, ToLocal(c[i].date), i)] :
                c \in [1..n -> HarvestOptions] } : n \in 1..MaxRecords }

InitAggregate ==
    /\ pc = "fetched"
    /\ args \in Args
    /\ resp = NoResp /\ repo = <<(<<"o">>), (<<"r">>)>> /\ exc = NoExc
    /\ week = LoadWeekRange
    /\ directory = DefaultDirectory(args.directory, LoadWeekRange.label)
    /\ raw_data \in HarvestedData
    /\ pass = 1 /\ page = 2 /\ commits = <<>> /\ ci = 0
    /\ listed = Len(raw_data) /\ throttled = TRUE /\ requests = <<>>
    /\ lastCommit = NoCommit
    /\ lastList = [status |-> 200, page |-> 2, collected |-> Len(raw_data)]
    /\ pass1 = [returned |-> TRUE, data |-> raw_data]
    /\ df = <<>> /\ table = <<>>
    /\ InitReport /\ InitBatch

NextAggregate == Aggregate

SpecAggregate == InitAggregate /\ [][NextAggregate]_vars

(***************************************************************************)
(* save_dataframe_as_html (html_parser.py 62-146): the outlier flags and   *)
(* the final grade of every row.  The z-score tests are decided in exact   *)
(* arithmetic: with n rows, sum S and sum of squares Q of a metric,        *)
(* z = (n*x - S) / sqrt(n*Q - S*S), and std = 0 iff n*Q - S*S = 0.         *)
(***************************************************************************)
\* lines 8-46 and 72: the commit count read back from the cell
\* '<a href="url" target="_blank">filename (count)</a>'
SplitCount(cell) == cell.count

\* line 95: float(x.split(' ')[0]) of "total (additions/deletions)"
ParseChanges(changes) == changes.total

\* lines 49-59: the number N of "<N>분"
ParseMinutes(minutes) == minutes

RECURSIVE SeqSum(_)
SeqSum(xs) == IF xs = <<>> THEN 0 ELSE Head(xs) + SeqSum(Tail(xs))

\* n * (x - mean) of entry i
Deviation(xs, i) == Len(xs) * xs[i] - SeqSum(xs)

\* n * n * variance (np.std is the population standard deviation)
Spread(xs) ==
    Len(xs) * SeqSum([k \in DOMAIN xs |-> xs[k] * xs[k]]) - SeqSum(xs) * SeqSum(xs)

\* lines 84-89, 122-127: std != 0 and z < -1.0
IsLowOutlier(xs, i) ==
    /\ Spread(xs) # 0
    /\ Deviation(xs, i) < 0
    /\ Deviation(xs, i) * Deviation(xs, i) > Spread(xs)

\* lines 98-103: std != 0 and z > 2.0
IsHighOutlier(xs, i) ==
    /\ Spread(xs) # 0
    /\ Deviation(xs, i) > 0
    /\ Deviation(xs, i) * Deviation(xs, i) > 4 * Spread(xs)

\* line 109: isna() | (similarity < 85.0), the similarity in hundredths
IsSimilarityOutlier(sim) == sim = None \/ sim < 8500

Flag(b) == IF b THEN 1 ELSE 0

(***************************************************************************)
(* The float64 arithmetic of np.mean and np.std (lines 82-83, 96-97,       *)
(* 120-121).  A float64 between 2^-7 and 2^13 (or 0.0) is held exactly as  *)
(* a fixed-point number with 59 fraction bits, in three limbs of 24 bits,  *)
(* most significant first; every operation rounds its exact result to 53   *)
(* significant bits, ties to even, as IEEE 754 does.                       *)
(***************************************************************************)
Limb == 16777216

Mantissa == 53

RECURSIVE Pow2(_)
Pow2(t) == IF t = 0 THEN 1 ELSE 2 * Pow2(t - 1)

RECURSIVE BitLen(_)
BitLen(x) == IF x = 0 THEN 0 ELSE 1 + BitLen(x \div 2)

BigLen(N) ==
    IF N[1] # 0 THEN 48 + BitLen(N[1])
    ELSE IF N[2] # 0 THEN 24 + BitLen(N[2])
    ELSE BitLen(N[3])

BigAdd(X, Y) ==
    LET s3 == X[3] + Y[3]
        s2 == X[2] + Y[2] + s3 \div Limb
        s1 == X[1] + Y[1] + s2 \div Limb
    IN  <<s1, s2 % Limb, s3 % Limb>>

\* quotient and remainder of N by a small divisor
BigDivSmall(N, d) ==
    LET t2 == (N[1] % d) * Limb + N[2]
        t3 == (t2 % d) * Limb + N[3]
    IN  [q |-> <<N[1] \div d, t2 \div d, t3 \div d>>, r |-> t3 % d]

\* N shifted right by t < 24 bits, the bits shifted out dropped
BigShr(N, t) ==
    LET p == Pow2(t)
        h == Limb \div p
    IN  <<N[1] \div p, (N[1] % p) * h + N[2] \div p, (N[2] % p) * h + N[3] \div p>>

BigShl(N, t) ==
    LET p == Pow2(t)
        h == Limb \div p
    IN  <<N[1] * p + N[2] \div h, (N[2] % h) * p + N[3] \div h, (N[3] % h) * p>>

BigLess(X, Y) ==
    \/ X[1] < Y[1]
    \/ X[1] = Y[1] /\ X[2] < Y[2]
    \/ X[1] = Y[1] /\ X[2] = Y[2] /\ X[3] < Y[3]

\* the float64 nearest to Q + R / d, ties to the even mantissa
RoundQuotient(Q, R, d) ==
    LET len == BigLen(Q)
        t == IF len > Mantissa THEN len - Mantissa ELSE 0
        p == Pow2(t)
        kept == BigShr(Q, t)
        rest == (Q[3] % p) * d + R
        up == \/ 2 * rest > p * d
              \/ 2 * rest = p * d /\ kept[3] % 2 = 1
    IN  BigShl(IF up THEN BigAdd(kept, <<0, 0, 1>>) ELSE kept, t)

\* the float64 of an integer below 2^13
FromInt(x) == <<x * 2048, 0, 0>>

\* line 95: float() of a two-decimal numeral, given in hundredths
ParseFloat(k) ==
    LET qr == BigDivSmall(FromInt(k), 100) IN RoundQuotient(qr.q, qr.r, 100)

FloatAdd(X, Y) == RoundQuotient(BigAdd(X, Y), 0, 1)

\* np.add.reduce: fewer than 8 elements are added one after the other
RECURSIVE FloatSum(_)
FloatSum(fs) ==
    IF fs = <<>> THEN <<0, 0, 0>>
    ELSE FloatAdd(FloatSum(SubSeq(fs, 1, Len(fs) - 1)), fs[Len(fs)])

\* np.mean: the sum divided by the number of elements
FloatMean(fs) ==
    LET qr == BigDivSmall(FloatSum(fs), Len(fs))
    IN  RoundQuotient(qr.q, qr.r, Len(fs))

\* the sign of x - mean; the subtraction of two float64 is 0.0 only for
\* equal operands
DeviationSign(x, mean) ==
    IF x = mean THEN 0 ELSE IF BigLess(x, mean) THEN -1 ELSE 1

\* lines 82-87, 96-101, 120-125: the sign of every row's z-score.  np.std
\* is 0.0 iff every x - mean is 0.0, and then the z-scores are np.zeros;
\* otherwise z = (x - mean) / std has the sign of x - mean.
ZScoreSigns(fs) ==
    LET mean == FloatMean(fs)
    IN  [i \in DOMAIN fs |-> DeviationSign(fs[i], mean)]

\* variant: "fail" from two flagged metrics on
FinalGradeFailFromTwo(outlier_count) ==
    IF outlier_count >= 2 THEN "fail"
    ELSE IF outlier_count >= 1 THEN "warning"
    ELSE "success"

\* lines 138-140
FinalGrade(outlier_count) ==
    IF outlier_count >= 1 /\ outlier_count < 3 THEN "warning"
    ELSE IF outlier_count >= 3 THEN "fail"
    ELSE "success"

\* lines 65-140 for row i of the table t
GradedRow(t, i) ==
    LET counts == [k \in DOMAIN t |-> SplitCount(t[k].cell)]
        changes == [k \in DOMAIN t |-> ParseChanges(t[k].changes)]
        minutes == [k \in DOMAIN t |-> ParseMinutes(t[k].minutes)]
        c == IsLowOutlier(counts, i)
        a == IsHighOutlier(changes, i)
        m == IsLowOutlier(minutes, i)
        q == IsSimilarityOutlier(t[i].similarity)
        total == Flag(c) + Flag(a) + Flag(q) + Flag(m)
    IN  [commit_count_is_outlier |-> c,
         avg_changes_is_outlier |-> a,
         code_similarity_is_outlier |-> q,
         coding_minutes_is_outlier |-> m,
         outlier_count |-> total,
         result |-> FinalGrade(total)]

\* lines 81-87, 95-101, 119-125: the z-scores of the three metrics, as
\* their signs, next to the flags and the grade of every row
Graded(t) ==
    LET commit == ZScoreSigns([k \in DOMAIN t |-> FromInt(SplitCount(t[k].cell))])
        changes == ZScoreSigns([k \in DOMAIN t |-> ParseFloat(ParseChanges(t[k].changes))])
        minutes == ZScoreSigns([k \in DOMAIN t |-> FromInt(ParseMinutes(t[k].minutes))])
    IN  [i \in DOMAIN t |->
            GradedRow(t, i) @@ [z_score_commit |-> commit[i],
                                z_score_changes |-> changes[i],
                                z_score_minutes |-> minutes[i]]]

SaveDataframeAsHtml ==
    /\ rpc = "called"
    /\ graded' = Graded(rtable)
    /\ rpc' = "written"
    /\ UNCHANGED <<rtable, batchVars, harvestVars>>
    /\ UNCHANGED <<pc, args, resp, repo, exc, week, directory, df, table>>

(***************************************************************************)
(* The tables handed to save_dataframe_as_html: rows as analyze_commits    *)
(* returns them.                                                           *)
(***************************************************************************)
ReportRow(count, total, sim, minutes) ==
    [name |-> <<"M", "i", "n">>, user |-> Kim,
     cell |-> [url |-> 1, filename |-> PathA, count |-> count],
     date |-> 29, status |-> "modified",
     changes |-> [total |-> total, additions |-> total, deletions |-> 0],
     loc |-> 12, similarity |-> sim, minutes |-> minutes,
     result |-> calculate_result(count)]

ReportRows ==
    { ReportRow(3, 400, 9000, 60),
      ReportRow(1, 5000, None, 0),
      ReportRow(1, 400, None, 60),
      ReportRow(3, 400, 8499, 60),
      ReportRow(6, 400, 8500, 600) }

InitReportCall ==
    /\ pc = "idle" /\ args \in {a \in Args : a.exclude_first_commit}
    /\ resp = NoResp /\ repo = NoRepo /\ exc = NoExc
    /\ week = LoadWeekRange /\ directory = <<>>
    /\ pass = 0 /\ page = 0 /\ commits = <<>> /\ ci = 0 /\ listed = 0
    /\ raw_data = <<>> /\ throttled = TRUE /\ lastCommit = NoCommit
    /\ requests = <<>>
    /\ lastList = NoList /\ pass1 = NotReturned /\ df = <<>> /\ table = <<>>
    /\ rtable \in UNION { [1..n -> ReportRows] : n \in 1..MaxRows }
    /\ graded = <<>> /\ rpc = "called"
    /\ InitBatch

NextReport == SaveDataframeAsHtml

SpecReport == InitReportCall /\ [][NextReport]_vars

(***************************************************************************)
(* save_dataframe_as_html on small tables whose metrics are drawn from two *)
(* values each, so that every metric is constant in some tables and varies *)
(* in others.  5.67 is the rounded mean of the changes 5, 6 and 6.         *)
(***************************************************************************)
MaxTable == 3

ZScoreRows ==
    { ReportRow(count, total, 9000, minutes) :
        count \in {1, 3}, total \in {400, 567}, minutes \in {0, 60} }

InitZScoreCall ==
    /\ pc = "idle" /\ args \in {a \in Args : a.exclude_first_commit}
    /\ resp = NoResp /\ repo = NoRepo /\ exc = NoExc
    /\ week = LoadWeekRange /\ directory = <<>>
    /\ pass = 0 /\ page = 0 /\ commits = <<>> /\ ci = 0 /\ listed = 0
    /\ raw_data = <<>> /\ throttled = TRUE /\ lastCommit = NoCommit
    /\ requests = <<>>
    /\ lastList = NoList /\ pass1 = NotReturned /\ df = <<>> /\ table = <<>>
    /\ rtable \in UNION { [1..n -> ZScoreRows] : n \in 1..MaxTable }
    /\ graded = <<>> /\ rpc = "called"
    /\ InitBatch

SpecZScore == InitZScoreCall /\ [][NextReport]_vars

(***************************************************************************)
(* analyze_multiple_users (main.py 6-55).  A line is the list of its       *)
(* comma-separated parts after strip(); the blank line has none.           *)
(* analyze_commits is entered through its outcomes: the exceptions that    *)
(* leave it and the tables it returns.                                     *)
(***************************************************************************)
Min == <<"M", "i", "n">>

AccountLines ==
    { <<>>,                                  \* a blank line
      <<"url", "token">>,                    \* too few parts
      <<"url", "token", Kim>>,
      <<"url", "token", Kim, Min>> }

\* line 22
ActualName(parts) == IF Len(parts) > 3 THEN parts[4] ELSE parts[3]

\* the exceptions analyze_commits raises (lines 27, 45, 48, 57-58, 65 of
\* extract_repo_info, the uncaught requests.get of _fetch_commits)
AnalyzeExceptions ==
    {"RepoNotFoundError", "RepoPermissionError", "RequestException"}

\* the tables analyze_commits returns for the display name `name`
AnalyzeTables(name) ==
    { <<>>,
      <<[ReportRow(3, 400, 9000, 60) EXCEPT !.name = name]>>,
      <<[ReportRow(1, 400, None, 60) EXCEPT !.name = name],
        [ReportRow(6, 400, 8500, 600) EXCEPT !.name = name]>> }

Outcome(kind, type, rows) == [kind |-> kind, type |-> type, rows |-> rows]

\* variant: only the first handler (line 34) is there
CaughtOnlyNotFound(type) == type = "RepoNotFoundError"

\* lines 34-37: except RepoNotFoundError, except Exception
Caught(type) == TRUE

\* pd.concat(all_results, ignore_index=True)
RECURSIVE Concat(_)
Concat(tables) == IF tables = <<>> THEN <<>> ELSE Head(tables) \o Concat(Tail(tables))

\* lines 16-37: one iteration of the for loop
AnalyzeLine ==
    /\ bpc = "loop"
    /\ Len(outcomes) < Len(lines)
    /\ LET parts == lines[Len(outcomes) + 1] IN
       IF parts = <<>>
       THEN \* lines 17-18
            /\ outcomes' = Append(outcomes, Outcome("blank", "none", <<>>))
            /\ UNCHANGED <<all_results, bpc>>
       ELSE IF Len(parts) < 3
       THEN \* line 21 raises IndexError inside the try
            /\ outcomes' = Append(outcomes, Outcome("raised", "IndexError", <<>>))
            /\ bpc' = IF Caught("IndexError") THEN "loop" ELSE "crashed"
            /\ UNCHANGED all_results
       ELSE \/ \E type \in AnalyzeExceptions :
                 /\ outcomes' = Append(outcomes, Outcome("raised", type, <<>>))
                 /\ bpc' = IF Caught(type) THEN "loop" ELSE "crashed"
                 /\ UNCHANGED all_results
            \/ \E t \in AnalyzeTables(ActualName(parts)) :
                 \* lines 30-33: if not df.empty
                 /\ outcomes' = Append(outcomes,
                        Outcome(IF t = <<>> THEN "empty" ELSE "table", "none", t))
                 /\ all_results' = IF t # <<>> THEN Append(all_results, t)
                                    ELSE all_results
                 /\ UNCHANGED bpc
    /\ UNCHANGED <<lines, report, reportVars, harvestVars>>
    /\ UNCHANGED <<pc, args, resp, repo, exc, week, directory, df, table>>

\* lines 39-55: after the loop
WriteReports ==
    /\ bpc = "loop"
    /\ Len(outcomes) = Len(lines)
    /\ bpc' = "done"
    /\ IF all_results # <<>>
       THEN LET combined_df == Concat(all_results) IN
            /\ rtable' = combined_df
            /\ graded' = Graded(combined_df)
            /\ rpc' = "written"
            /\ report' = [combined |-> TRUE,
                           names |-> {combined_df[i].name : i \in DOMAIN combined_df}]
       ELSE /\ report' = NoReport
            /\ UNCHANGED reportVars
    /\ UNCHANGED <<lines, all_results, outcomes, harvestVars>>
    /\ UNCHANGED <<pc, args, resp, repo, exc, week, directory, df, table>>

InitBatchCall ==
    /\ pc = "idle" /\ args \in {a \in Args : a.exclude_first_commit}
    /\ resp = NoResp /\ repo = NoRepo /\ exc = NoExc
    /\ week = LoadWeekRange /\ directory = <<>>
    /\ pass = 0 /\ page = 0 /\ commits = <<>> /\ ci = 0 /\ listed = 0
    /\ raw_data = <<>> /\ throttled = TRUE /\ lastCommit = NoCommit
    /\ requests = <<>>
    /\ lastList = NoList /\ pass1 = NotReturned /\ df = <<>> /\ table = <<>>
    /\ InitReport
    /\ lines \in UNION { [1..n -> AccountLines] : n \in 1..MaxLines }
    /\ all_results = <<>> /\ outcomes = <<>> /\ bpc = "loop"
    /\ report = NoReport

NextBatch == AnalyzeLine \/ WriteReports

SpecBatch == InitBatchCall /\ [][NextBatch]_vars

(***************************************************************************)
(* Properties of the resolver and the harvest, checked under Spec.         *)
(***************************************************************************)
MixedCaseRateLimit == <<"R", "a", "t", "e", " ", "L", "i", "m", "i", "t">>

\* The bodies of the model whose message holds "rate limit" in some casing
RateLimitBodies ==
    { [json |-> TRUE, hasMessage |-> TRUE, message |-> m] :
        m \in { <<"A", "P", "I", " ", "r", "a", "t", "e", " ", "l", "i", "m", "i", "t">>,
                MixedCaseRateLimit,
                <<"R", "A", "T", "E", " ", "L", "I", "M", "I", "T", "!">> } }

\* C1: once the validation request of extract_repo_info has completed, the
\* status decides the outcome: 200 returns (owner, repo) and nothing else
\* does; 404 raises the not-found error; 401/403 raise the permission error,
\* rate-limit flavoured iff the body's message holds "rate limit" in any
\* casing; any other status raises the API error carrying the status.
C1_StatusDecidesOutcome ==
    resp # NoResp =>
        /\ pc \in {"resolved", "raised"}
        /\ (pc = "resolved") <=> (resp.status = 200)
        /\ resp.status = 200 => repo = <<(<<"o">>), (<<"r">>)>> /\ exc = NoExc
        /\ resp.status # 200 => repo = NoRepo
        /\ resp.status = 404 =>
              exc.type = "RepoNotFoundError"
        /\ resp.status \in {401, 403} =>
              /\ exc.type = "RepoPermissionError"
              /\ (exc.kind = "rate_limit") <=> (resp.body \in RateLimitBodies)
              /\ exc.kind \in {"rate_limit", "permission"}
        /\ resp.status \notin {200, 401, 403, 404} =>
              exc.type = "RuntimeError" /\ exc.status = resp.status

C1_Witness ==
    /\ pc = "raised" /\ resp.status = 403
    /\ resp.body.hasMessage /\ resp.body.message = MixedCaseRateLimit
    /\ exc.type = "RepoPermissionError" /\ exc.kind = "rate_limit"

\* C2: Pass 2 runs iff Pass 1 returned no record: while Pass 2 runs or after
\* it, Pass 1 has returned the empty list; when Pass 1 returned records, the
\* pass stays 1 and analyze_commits works on exactly those records; when
\* analyze_commits returns after an empty Pass 1, Pass 2 has run.  In Pass 2
\* a commit's detail is requested only if its author name equals the
\* identity exactly.
C2_FallbackIffPass1Empty ==
    /\ pass = 2 => pass1.returned /\ pass1.data = <<>>
    /\ (pass1.returned /\ pass1.data # <<>>) =>
          /\ pass = 1 /\ raw_data = pass1.data
          /\ pc \in {"fetched", "returned", "raised"}
    /\ (pc = "returned" /\ pass1.data = <<>>) => pass = 2
    /\ (pass = 2 /\ lastCommit.requested) => lastCommit.name = args.username

C2_Witness ==
    /\ pc = "returned" /\ pass = 2 /\ pass1.returned /\ pass1.data = <<>>
    /\ raw_data # <<>> /\ table # <<>>

\* C3: a non-200 commit-list response, on the first page or a later one,
\* makes _fetch_commits return the empty list without raising, whatever the
\* earlier pages collected; in Pass 1 the fallback is then the only next
\* step, in Pass 2 analyze_commits returns the empty table.
C3_FailedPageEmptiesPass ==
    /\ (pc = "fetched" /\ lastList.status # 200) =>
          /\ raw_data = <<>> /\ exc = NoExc
          /\ pass = 1 => (pass1.data = <<>> /\ ENABLED Fallback /\ ~ENABLED Aggregate)
          /\ pass = 2 => ~ENABLED Fallback
    /\ (pc = "returned" /\ lastList.status # 200) => pass = 2 /\ table = <<>>
    /\ ~(pc = "raised" /\ lastList.status \notin {0, 200})

C3_Witness ==
    /\ pc = "fetched" /\ lastList.status = 500 /\ lastList.page = 2
    /\ lastList.collected > 0 /\ raw_data = <<>> /\ pass = 1

\* C4: every record of the harvest has a filename under the configured
\* directory prefix (the week label and "/" when none is given), ending in
\* ".py", with a status other than "removed".
C4_RecordsUnderDirectory ==
    pass >= 1 =>
        \A i \in DOMAIN raw_data :
            /\ StartsWith(raw_data[i].filename, directory)
            /\ EndsWith(raw_data[i].filename, DotPy)
            /\ raw_data[i].status # "removed"

\* C5: once the repository is resolved, analyze_commits does not raise,
\* whatever request of the harvest or the aggregation fails.
C5_NoRaiseAfterResolve ==
    repo # NoRepo => pc # "raised" /\ exc = NoExc

\* C7: a commit is kept iff its author date plus 9 hours lies in the
\* inclusive window loaded from the week descriptor (midnight of the start
\* day to midnight of the end day); every record carries such a date.
C7_WindowInclusive ==
    pass >= 1 =>
        /\ week.start = 24 * WeekDescriptor.start_day
        /\ week.end = 24 * WeekDescriptor.end_day
        /\ \A i \in DOMAIN raw_data :
              week.start <= raw_data[i].date /\ raw_data[i].date <= week.end
        /\ (lastCommit.status = 200 /\ pc # "raised") =>
              ((pc = "sleep") <=>
                 (week.start <= lastCommit.date + 9 /\ lastCommit.date + 9 <= week.end))
        /\ pc = "sleep" => lastCommit.status = 200

C7_Witness ==
    /\ pc = "sleep" /\ lastCommit.date + 9 = week.end
    /\ raw_data # <<>> /\ raw_data[Len(raw_data)].date = week.end

(***************************************************************************)
(* Properties of the aggregation, checked under SpecAggregate.             *)
(***************************************************************************)
\* The records of a file that exclude-first-commit is to remove: the one of
\* the earliest date, the first in harvest order among those, and only when
\* the file has several records
EarliestOfSeveral(data) ==
    { i \in DOMAIN data :
        LET g == {j \in DOMAIN data : data[j].filename = data[i].filename} IN
        /\ Cardinality(g) > 1
        /\ \A j \in g : (data[i].date < data[j].date)
                          \/ (data[i].date = data[j].date /\ i <= j) }

\* The k-th index of data outside the set gone, in harvest order
KthKept(data, gone, k) ==
    CHOOSE i \in DOMAIN data \ gone :
        Cardinality({j \in DOMAIN data \ gone : j < i}) = k - 1

ExampleHarvest ==
    <<MakeRecord(FileEntry(PathA, "added", 10, 10, 0), Kim, 24, 1),
      MakeRecord(FileEntry(PathA, "modified", 4, 3, 1), Kim, 29, 2),
      MakeRecord(FileEntry(PathA, "modified", 4, 3, 1), Kim, 48, 3),
      MakeRecord(FileEntry(PathB, "modified", 3, 1, 2), Kim, 29, 4)>>

\* C6: with exclude_first_commit, the frame that is aggregated is the
\* harvest without, for every filename of several records, its record of
\* the earliest date (the first in harvest order among ties); one record is
\* removed per such filename, none for a filename of one record; three
\* records of A at t1<t2<t3 and one of B leave A's t2, t3 and B's record.
C6_ExcludeFirstCommit ==
    (pc \in {"returned", "raised"} /\ args.exclude_first_commit) =>
        LET gone == EarliestOfSeveral(raw_data) IN
        /\ Len(df) = Len(raw_data) - Cardinality(gone)
        /\ \A k \in DOMAIN df : df[k] = raw_data[KthKept(raw_data, gone, k)]
        /\ \A fn \in {raw_data[i].filename : i \in DOMAIN raw_data} :
              LET before == Cardinality({i \in DOMAIN raw_data : raw_data[i].filename = fn})
                  after == Cardinality({k \in DOMAIN df : df[k].filename = fn})
              IN  after = IF before > 1 THEN before - 1 ELSE 1
        /\ raw_data = ExampleHarvest => df = SubSeq(ExampleHarvest, 2, 4)

C6_Witness ==
    /\ pc = "returned" /\ args.exclude_first_commit
    /\ raw_data = ExampleHarvest /\ df = SubSeq(ExampleHarvest, 2, 4)
    /\ Len(table) = 2

\* C9: every row analyze_commits returns carries as commit count the number
\* of records of its filename in the aggregated frame, at least 1, and the
\* provisional grade fail for 1, warning for 2..4, success for 5 and more.
C9_CountAndProvisionalGrade ==
    pc = "returned" =>
        \A k \in DOMAIN table :
            LET n == table[k].cell.count IN
            /\ n = Cardinality({i \in DOMAIN df : df[i].filename = table[k].cell.filename})
            /\ n >= 1
            /\ n = 1 => table[k].result = "fail"
            /\ (2 <= n /\ n < 5) => table[k].result = "warning"
            /\ n >= 5 => table[k].result = "success"

C9_Witness ==
    /\ pc = "returned" /\ Len(table) = 1 /\ Len(raw_data) = 5
    /\ table[1].cell.count = 5 /\ table[1].result = "success"

(***************************************************************************)
(* Properties of the final grade, checked under SpecReport.                *)
(***************************************************************************)
FlagsOf(g) ==
    {f \in {"commit_count_is_outlier", "avg_changes_is_outlier",
             "code_similarity_is_outlier", "coding_minutes_is_outlier"} : g[f]}

\* C8: the final grade of a row depends only on how many of its four
\* outlier flags are set, a number in 0..4: success for 0, warning for 1 or
\* 2, fail for 3 or 4, whatever the provisional grade was; a row graded
\* "fail" provisionally whose only flag is the missing similarity ends
\* "warning".
C8_FinalGradeFromFlagCount ==
    rpc = "written" =>
        /\ Len(graded) = Len(rtable)
        /\ \A i \in DOMAIN graded :
              LET n == Cardinality(FlagsOf(graded[i])) IN
              /\ graded[i].outlier_count = n
              /\ n = 0 => graded[i].result = "success"
              /\ n \in {1, 2} => graded[i].result = "warning"
              /\ n \in {3, 4} => graded[i].result = "fail"
              /\ (/\ rtable[i].result = "fail"
                  /\ rtable[i].similarity = None
                  /\ FlagsOf(graded[i]) = {"code_similarity_is_outlier"})
                 => graded[i].result = "warning"

\* a table in which one row has all four flags and another none, both
\* graded against their provisional grade
C8_Witness ==
    /\ rpc = "written"
    /\ \E i \in DOMAIN graded :
          graded[i].outlier_count = 4 /\ graded[i].result = "fail"
    /\ \E i \in DOMAIN graded :
          graded[i].outlier_count = 0 /\ rtable[i].result = "warning"
          /\ graded[i].result = "success"

\* the row of the claim's example: provisional "fail", the missing
\* similarity its only flag, final grade "warning"
C8_ExampleReached ==
    /\ rpc = "written"
    /\ \E i \in DOMAIN graded :
          /\ rtable[i].result = "fail" /\ rtable[i].similarity = None
          /\ graded[i].outlier_count = 1 /\ graded[i].result = "warning"

(***************************************************************************)
(* Properties of the batch run, checked under SpecBatch.                   *)
(***************************************************************************)
\* C10: an exception of one contributor's analysis ends that analysis only:
\* the run never stops before the last line, every line after a failed one
\* is read, the combined report is written iff some contributor returned a
\* table with rows, and all_results holds exactly those tables, in file
\* order (a contributor without rows adds nothing).
C10_FailureEndsOneContributorOnly ==
    /\ bpc # "crashed"
    /\ Len(outcomes) < Len(lines) => bpc = "loop"
    /\ all_results =
          LET withRows == SelectSeq(outcomes, LAMBDA o : o.kind = "table") IN
          [k \in DOMAIN withRows |-> withRows[k].rows]
    /\ bpc = "done" =>
          /\ Len(outcomes) = Len(lines)
          /\ \A i \in DOMAIN lines :
                (outcomes[i].kind = "blank") <=> (lines[i] = <<>>)
          /\ report.combined <=> (\E i \in DOMAIN outcomes : outcomes[i].kind = "table")
          /\ report.combined => Len(rtable) = Len(graded) /\ Len(rtable) >= 1

C10_Witness ==
    /\ bpc = "done" /\ Len(lines) = 3
    /\ outcomes[1].kind = "raised" /\ outcomes[1].type = "RequestException"
    /\ outcomes[2].kind = "empty"
    /\ outcomes[3].kind = "table"
    /\ report.combined /\ Len(all_results) = 1

(***************************************************************************)
(* Claim C11                                                               *)
(***************************************************************************)
IsConstant(xs) == \A i, j \in DOMAIN xs : xs[i] = xs[j]

\* the three z-scored columns of a table
CountsOf(t) == [k \in DOMAIN t |-> SplitCount(t[k].cell)]

ChangesOf(t) == [k \in DOMAIN t |-> ParseChanges(t[k].changes)]

MinutesOf(t) == [k \in DOMAIN t |-> ParseMinutes(t[k].minutes)]

\* C11: in the table save_dataframe_as_html has graded, a z-scored metric
\* (commit count, mean total changes, coding minutes) that has the same
\* value in every row has z-score 0 in every row, and no row is flagged as
\* an outlier on that metric.
C11_ConstantMetricScoresZero ==
    rpc = "written" =>
        /\ IsConstant(CountsOf(rtable)) =>
              \A i \in DOMAIN graded :
                  graded[i].z_score_commit = 0 /\ ~graded[i].commit_count_is_outlier
        /\ IsConstant(ChangesOf(rtable)) =>
              \A i \in DOMAIN graded :
                  graded[i].z_score_changes = 0 /\ ~graded[i].avg_changes_is_outlier
        /\ IsConstant(MinutesOf(rtable)) =>
              \A i \in DOMAIN graded :
                  graded[i].z_score_minutes = 0 /\ ~graded[i].coding_minutes_is_outlier

\* what holds of a constant metric: the two integer metrics score 0, and no
\* row is flagged on any of the three
C11_IntegerMetricsScoreZero ==
    rpc = "written" =>
        /\ IsConstant(CountsOf(rtable)) =>
              \A i \in DOMAIN graded :
                  graded[i].z_score_commit = 0 /\ ~graded[i].commit_count_is_outlier
        /\ IsConstant(ChangesOf(rtable)) =>
              \A i \in DOMAIN graded : ~graded[i].avg_changes_is_outlier
        /\ IsConstant(MinutesOf(rtable)) =>
              \A i \in DOMAIN graded :
                  graded[i].z_score_minutes = 0 /\ ~graded[i].coding_minutes_is_outlier

\* three rows of 5.67 mean changes have been graded
C11_ThreeEqualChanges ==
    /\ rpc = "written" /\ Len(rtable) = 3
    /\ \A i \in DOMAIN rtable : ChangesOf(rtable)[i] = 567


(***************************************************************************)
(* Claim C12                                                               *)
(***************************************************************************)
\* a step of _fetch_commits that issues a commit-detail request (line 335)
DetailRequested == pc = "commit" /\ lastCommit'.requested

\* C12: within a pass of _fetch_commits the throttle delay (line 366) has
\* elapsed since the previous commit-detail request whenever the next one
\* is issued, whatever the previous request's outcome was.
C12_DelayBetweenDetailRequests == [][DetailRequested => throttled]_vars


(***************************************************************************)
(* Claim C13                                                               *)
(***************************************************************************)
ListRequests == SelectSeq(requests, LAMBDA r : r.kind = "list")

DetailRequests == SelectSeq(requests, LAMBDA r : r.kind = "detail")

\* the page was empty or its request failed
EndsPass(r) == r.kind = "list" /\ (r.status # 200 \/ r.size = 0)

\* C13: in a pass of _fetch_commits nothing is retried.  The pages are
\* requested in the order 1, 2, 3, ..., each once; the first empty page (or
\* failed page) is the last request of the pass; every listed commit's
\* detail is requested at most once; a non-200 detail response leaves that
\* commit without records and the pass goes on with the next commit or the
\* next page.
C13_NothingRetried ==
    /\ \A i \in DOMAIN ListRequests : ListRequests[i].id = i
    /\ pc = "list" => page = Len(ListRequests) + 1
    /\ \A i \in DOMAIN requests :
          EndsPass(requests[i]) =>
              i = Len(requests) /\ pc \notin {"list", "commit", "sleep"}
    /\ \A i, j \in DOMAIN DetailRequests :
          i # j => DetailRequests[i].id # DetailRequests[j].id
    /\ \A i \in DOMAIN DetailRequests : DetailRequests[i].id \in 1..listed
    /\ \A i \in DOMAIN DetailRequests :
          DetailRequests[i].status # 200 =>
              \A k \in DOMAIN raw_data : raw_data[k].url # DetailRequests[i].id
    /\ (requests # <<>> /\ requests[Len(requests)].kind = "detail"
          /\ requests[Len(requests)].status \notin {0, 200}) =>
              pc \in {"commit", "list"} /\ exc = NoExc

\* a pass that went through a failed detail on page 1, kept a commit of
\* page 2 and ended at the empty page 3
C13_Witness ==
    /\ pc = "fetched" /\ Len(requests) = 5
    /\ requests[1] = ListRequest(1, 200, 1)
    /\ requests[2] = DetailRequest(1, 404)
    /\ requests[3] = ListRequest(2, 200, 1)
    /\ requests[4] = DetailRequest(2, 200)
    /\ requests[5] = ListRequest(3, 200, 0)
    /\ \E k \in DOMAIN raw_data : raw_data[k].url = 2


====
